---- MODULE Spec2Model ----
(***************************************************************************)
(* MetaMorphic: the multi-step join/concat executor (DataMerger) and the   *)
(* transformation dispatch engine (Transformer), as state machines.        *)
(*                                                                         *)
(* A table (pandas DataFrame) is a record [cols, rows]: cols is the        *)
(* ordered sequence of column names, rows the ordered sequence of records  *)
(* mapping every column name to a cell.  A Python dict is a function whose *)
(* DOMAIN is the set of keys present.                                      *)
(***************************************************************************)
EXTENDS Integers, Sequences, FiniteSets, TLC

(* ---------------- bounds of the model ---------------- *)
\* longest join configuration run on the sample tables
MaxSteps == 2
\* longest list of transformations
MaxTransformations == 2
\* most rows of a source table when a single step is run on every table
MaxRows == 2

(* ---------------- generic helpers ---------------- *)
Range(s) == {s[i] : i \in DOMAIN s}

SeqsUpTo(S, n) == UNION {[1..k -> S] : k \in 0..n}

RECURSIVE Flatten(_)
Flatten(ss) == IF ss = <<>> THEN <<>> ELSE Head(ss) \o Flatten(Tail(ss))

RECURSIVE Unique(_)
\* first occurrence of every element, in order
Unique(s) ==
    IF s = <<>> THEN <<>>
    ELSE LET init == Unique(SubSeq(s, 1, Len(s) - 1))
             last == s[Len(s)]
         IN IF last \in Range(init) THEN init ELSE Append(init, last)

\* Python's None where a string is expected, and a null cell (NaN/None)
None == "<None>"
NULL == "<null>"
\* Python's None where a DataFrame is expected
NoneDF == [none |-> TRUE]
IsNone(df) == "none" \in DOMAIN df

\* dict.get(k, default)
DictGet(d, k, default) == IF k \in DOMAIN d THEN d[k] ELSE default

\* an assignment that leaves the dictionary as it was
BindNothing(d, k, v) == d

\* d[k] = v
DictSet(d, k, v) == [n \in DOMAIN d \cup {k} |-> IF n = k THEN v ELSE d[n]]

(* ---------------- pandas.merge as used by DataMerger.merge ---------------- *)
MergeHows == {"left", "right", "inner", "outer"}

\* non-key columns present on both sides get the suffixes _x / _y
Overlap(L, R, lk, rk) ==
    (Range(L.cols) \cap Range(R.cols)) \ (IF lk = rk THEN {lk} ELSE {})

LeftName(L, R, lk, rk, c) == IF c \in Overlap(L, R, lk, rk) THEN c \o "_x" ELSE c

RightName(L, R, lk, rk, c) == IF c \in Overlap(L, R, lk, rk) THEN c \o "_y" ELSE c

\* a key column with the same name on both sides appears once
RightKept(R, lk, rk) == SelectSeq(R.cols, LAMBDA c : ~(lk = rk /\ c = rk))

MergeCols(L, R, lk, rk) ==
    LET rc == RightKept(R, lk, rk)
    IN [i \in 1..Len(L.cols) |-> LeftName(L, R, lk, rk, L.cols[i])]
       \o [i \in 1..Len(rc) |-> RightName(L, R, lk, rk, rc[i])]

\* indices of the rows of R whose key equals the key of row i of L, in R's order
RightMatches(L, R, lk, rk, i) ==
    SelectSeq([j \in 1..Len(R.rows) |-> j], LAMBDA j : R.rows[j][rk] = L.rows[i][lk])

LeftMatches(L, R, lk, rk, j) ==
    SelectSeq([i \in 1..Len(L.rows) |-> i], LAMBDA i : L.rows[i][lk] = R.rows[j][rk])

\* pairs <<i, j>> of row indices making up the result; 0 stands for "no row"
InnerPairs(L, R, lk, rk) ==
    Flatten([i \in 1..Len(L.rows) |->
        LET m == RightMatches(L, R, lk, rk, i)
        IN [n \in 1..Len(m) |-> <<i, m[n]>>]])

LeftPairs(L, R, lk, rk) ==
    Flatten([i \in 1..Len(L.rows) |->
        LET m == RightMatches(L, R, lk, rk, i)
        IN IF m = <<>> THEN << <<i, 0>> >> ELSE [n \in 1..Len(m) |-> <<i, m[n]>>]])

RightPairs(L, R, lk, rk) ==
    Flatten([j \in 1..Len(R.rows) |->
        LET m == LeftMatches(L, R, lk, rk, j)
        IN IF m = <<>> THEN << <<0, j>> >> ELSE [n \in 1..Len(m) |-> <<m[n], j>>]])

\* a left join that drops the unmatched rows of the left table
LeftAsInnerPairs(L, R, lk, rk, how) ==
    CASE how = "inner" -> InnerPairs(L, R, lk, rk)
      [] how = "left"  -> InnerPairs(L, R, lk, rk)
      [] how = "right" -> RightPairs(L, R, lk, rk)

\* the row pairs per join kind; how = "outer", whose row order depends on the
\* pandas version, is not among the join kinds the configurations below use
MergePairs(L, R, lk, rk, how) ==
    CASE how = "inner" -> InnerPairs(L, R, lk, rk)
      [] how = "left"  -> LeftPairs(L, R, lk, rk)
      [] how = "right" -> RightPairs(L, R, lk, rk)

MergeRow(L, R, lk, rk, p) ==
    [c \in Range(MergeCols(L, R, lk, rk)) |->
        IF \E lc \in Range(L.cols) : LeftName(L, R, lk, rk, lc) = c
        THEN LET lc == CHOOSE x \in Range(L.cols) : LeftName(L, R, lk, rk, x) = c
             IN IF p[1] # 0 THEN L.rows[p[1]][lc]
                ELSE IF lk = rk /\ lc = lk THEN R.rows[p[2]][rk]
                ELSE NULL
        ELSE LET rc == CHOOSE x \in Range(RightKept(R, lk, rk)) :
                           RightName(L, R, lk, rk, x) = c
             IN IF p[2] # 0 THEN R.rows[p[2]][rc] ELSE NULL]

\* pandas raises (MergeError, KeyError, ValueError) instead of returning
MergeFails(L, R, lk, rk, how) ==
    \/ how \notin MergeHows
    \/ lk = None \/ rk = None
    \/ lk \notin Range(L.cols) \/ rk \notin Range(R.cols)
    \/ Cardinality(Range(MergeCols(L, R, lk, rk))) # Len(MergeCols(L, R, lk, rk))

\* DataMerger.merge
merge(left_df, right_df, left_key, right_key, how) ==
    LET p == MergePairs(left_df, right_df, left_key, right_key, how)
    IN [cols |-> MergeCols(left_df, right_df, left_key, right_key),
        rows |-> [n \in 1..Len(p) |-> MergeRow(left_df, right_df, left_key, right_key, p[n])]]

(* ---------------- pandas.concat as used by DataMerger.concatenate ---------------- *)
ConcatColsInner(dfs) ==
    SelectSeq(Unique(Flatten([k \in 1..Len(dfs) |-> dfs[k].cols])),
              LAMBDA c : \A k \in 1..Len(dfs) : c \in Range(dfs[k].cols))

\* union of the inputs' columns, in order of first appearance
ConcatCols(dfs) == Unique(Flatten([k \in 1..Len(dfs) |-> dfs[k].cols]))

ConcatRows(dfs) ==
    Flatten([k \in 1..Len(dfs) |->
        [i \in 1..Len(dfs[k].rows) |->
            [c \in Range(ConcatCols(dfs)) |->
                IF c \in Range(dfs[k].cols) THEN dfs[k].rows[i][c] ELSE NULL]]])

\* pd.concat([]) raises "No objects to concatenate"
ConcatFails(dfs) == dfs = <<>>

concat(dfs) == [cols |-> ConcatCols(dfs), rows |-> ConcatRows(dfs)]

\* the lookup loop of DataMerger.concatenate: the tables found, None for a missing name
Lookup(dict, names) == [k \in 1..Len(names) |-> DictGet(dict, names[k], NoneDF)]

(* ---------------- text and configuration values of the Transformer ---------------- *)
\* A string is the sequence of its code points.  "U+0301" is the combining acute
\* accent and "U+00E9" the precomposed e-acute; an ASCII identifier (a method, keyword
\* or column name) may stand as one atom, which normalisation leaves alone.
Composes(a, b) == a = "e" /\ b = "U+0301"

Composed(a, b) == "U+00E9"

RECURSIVE NFC(_)
\* unicodedata.normalize('NFC', s): a base letter followed by a combining mark it
\* composes with becomes the precomposed code point
NFC(s) ==
    IF Len(s) < 2 THEN s
    ELSE IF Composes(s[1], s[2])
         THEN <<Composed(s[1], s[2])>> \o NFC(SubSeq(s, 3, Len(s)))
         ELSE <<s[1]>> \o NFC(Tail(s))

\* Python values found in a parsed configuration
PyStr(s) == [kind |-> "str", s |-> s]
PyList(items) == [kind |-> "list", items |-> items]
PyDict(d) == [kind |-> "dict", d |-> d]

\* Transformer.normalize_string: only a str is normalised, anything else is returned as is
normalize_string(v) == IF v.kind = "str" THEN PyStr(NFC(v.s)) ELSE v

\* normalisation that descends into the lists held by a mapping
NormalizeDeep(params) ==
    CASE params.kind = "list" ->
            PyList([i \in 1..Len(params.items) |-> normalize_string(params.items[i])])
      [] params.kind = "dict" ->
            PyDict([k \in DOMAIN params.d |->
                IF params.d[k].kind = "list"
                THEN PyList([i \in 1..Len(params.d[k].items) |->
                                normalize_string(params.d[k].items[i])])
                ELSE normalize_string(params.d[k])])
      [] OTHER -> normalize_string(params)

\* run_transformations, lines 115-120: the parameters as dispatched
NormalizeParams(params) ==
    CASE params.kind = "list" ->
            PyList([i \in 1..Len(params.items) |-> normalize_string(params.items[i])])
      [] params.kind = "dict" ->
            PyDict([k \in DOMAIN params.d |-> normalize_string(params.d[k])])
      [] OTHER -> normalize_string(params)

(* ---------------- tables of the Transformer ---------------- *)
\* a null cell (NaN) of a table whose cells are strings
NullT == <<"<null>">>

\* code points in ascending order, for comparing cells when sorting
CodePointOrder == <<" ", "+", "-", "0", "1", "2", "3", "4", "5", "6", "7", "8", "9",
                    "_", "a", "b", "e", "n", "x", "y", "U+00E9", "U+0301">>

Rank(t) == CHOOSE i \in 1..Len(CodePointOrder) : CodePointOrder[i] = t

RECURSIVE StrLess(_, _)
StrLess(a, b) ==
    IF b = <<>> THEN FALSE
    ELSE IF a = <<>> THEN TRUE
    ELSE IF a[1] = b[1] THEN StrLess(Tail(a), Tail(b))
    ELSE Rank(a[1]) < Rank(b[1])

\* ascending order of cells, nulls last
CellLess(a, b) ==
    IF a = NullT THEN FALSE
    ELSE IF b = NullT THEN TRUE
    ELSE StrLess(a, b)

RECURSIVE KeyLess(_, _, _)
\* lexicographic order of two rows on the given columns
KeyLess(r1, r2, columns) ==
    IF columns = <<>> THEN FALSE
    ELSE IF r1[Head(columns)] = r2[Head(columns)] THEN KeyLess(r1, r2, Tail(columns))
    ELSE CellLess(r1[Head(columns)], r2[Head(columns)])

SameKey(r1, r2, columns) == \A c \in Range(columns) : r1[c] = r2[c]

\* what an operation did: the table self.df holds afterwards, whether self.df was
\* rebound to a new object, and the error raised (kind "none": it returned) with the
\* strings its message names
Done(t, rebinds) == [ok |-> TRUE, df |-> t, rebinds |-> rebinds, kind |-> "none", value |-> <<>>]
Raised(t, kind, value) == [ok |-> FALSE, df |-> t, rebinds |-> FALSE, kind |-> kind, value |-> value]

MissingColumns(t, columns) == SelectSeq(columns, LAMBDA c : c \notin Range(t.cols))

(* ---------------- Transformer.select_columns ---------------- *)
\* the columns kept in the table's own order, whatever order the list gives
SelectInTableOrder(t, columns) ==
    IF MissingColumns(t, columns) # <<>>
    THEN Raised(t, "ColumnsNotFound", <<Head(MissingColumns(t, columns))>>)
    ELSE Done([cols |-> SelectSeq(t.cols, LAMBDA c : c \in Range(columns)),
               rows |-> [i \in 1..Len(t.rows) |-> [c \in Range(columns) |-> t.rows[i][c]]]],
              TRUE)

select_columns(t, columns) ==
    IF MissingColumns(t, columns) # <<>>
    THEN Raised(t, "ColumnsNotFound", MissingColumns(t, columns))
    ELSE Done([cols |-> columns,
               rows |-> [i \in 1..Len(t.rows) |-> [c \in Range(columns) |-> t.rows[i][c]]]],
              TRUE)

(* ---------------- Transformer.filter_rows ---------------- *)
\* a filter that keeps the rows whose cell is listed whichever operator is given
FilterIgnoresOperator(t, column, operator, values) ==
    IF column \notin Range(t.cols) THEN Raised(t, "ColumnsNotFound", <<column>>)
    ELSE IF values.kind # "list" THEN Raised(t, "TypeError", <<>>)
    ELSE LET vs == {values.items[i].s : i \in 1..Len(values.items)}
         IN Done([cols |-> t.cols, rows |-> SelectSeq(t.rows, LAMBDA r : r[column] \in vs)],
                 TRUE)

\* values is the Python value given: Series.isin wants a list
filter_rows(t, column, operator, values) ==
    IF column \notin Range(t.cols) THEN Raised(t, "ColumnsNotFound", <<column>>)
    ELSE IF operator \notin {<<"is_in">>, <<"not_in">>}
    THEN Raised(t, "InvalidOperator", <<operator>>)
    ELSE IF values.kind # "list" THEN Raised(t, "TypeError", <<>>)
    ELSE LET vs == {values.items[i].s : i \in 1..Len(values.items)}
             keep(r) == IF operator = <<"is_in">> THEN r[column] \in vs
                        ELSE r[column] \notin vs
         IN Done([cols |-> t.cols, rows |-> SelectSeq(t.rows, keep)], TRUE)

(* ---------------- Transformer.drop_duplicates ---------------- *)
\* of the rows that agree on the columns the one appearing last is kept
DropKeepsLast(t, columns, keep) ==
    IF columns = <<>> THEN Raised(t, "InvalidParameters", <<>>)
    ELSE IF MissingColumns(t, columns) # <<>>
    THEN Raised(t, "ColumnsNotFound", MissingColumns(t, columns))
    ELSE LET n == Len(t.rows)
             kept == {i \in 1..n : ~\E j \in (i + 1)..n : SameKey(t.rows[j], t.rows[i], columns)}
             idx == SelectSeq([i \in 1..n |-> i], LAMBDA i : i \in kept)
         IN Done([cols |-> t.cols, rows |-> [m \in 1..Len(idx) |-> t.rows[idx[m]]]], TRUE)

drop_duplicates(t, columns, keep) ==
    IF columns = <<>> THEN Raised(t, "InvalidParameters", <<>>)
    ELSE IF MissingColumns(t, columns) # <<>>
    THEN Raised(t, "ColumnsNotFound", MissingColumns(t, columns))
    ELSE IF keep \notin {<<"first">>, <<"last">>} THEN Raised(t, "ValueError", <<keep>>)
    ELSE LET n == Len(t.rows)
             kept == {i \in 1..n :
                        IF keep = <<"first">>
                        THEN ~\E j \in 1..(i - 1) : SameKey(t.rows[j], t.rows[i], columns)
                        ELSE ~\E j \in (i + 1)..n : SameKey(t.rows[j], t.rows[i], columns)}
             idx == SelectSeq([i \in 1..n |-> i], LAMBDA i : i \in kept)
         IN Done([cols |-> t.cols, rows |-> [m \in 1..Len(idx) |-> t.rows[idx[m]]]], TRUE)

(* ---------------- Transformer.standardize_id_columns ---------------- *)
Digits == {"0", "1", "2", "3", "4", "5", "6", "7", "8", "9"}

RECURSIVE StripLeft(_, _)
StripLeft(s, drop) ==
    IF s # <<>> /\ s[1] \in drop THEN StripLeft(Tail(s), drop) ELSE s

RECURSIVE StripRight(_, _)
StripRight(s, drop) ==
    IF s # <<>> /\ s[Len(s)] \in drop THEN StripRight(SubSeq(s, 1, Len(s) - 1), drop) ELSE s

\* the text int() reads digits from: surrounding blanks and one sign removed
IntBody(s) ==
    LET t == StripRight(StripLeft(s, {" "}), {" "})
    IN IF t # <<>> /\ t[1] \in {"+", "-"} THEN Tail(t) ELSE t

\* int(s) accepts s: digits, with single underscores between digits allowed
IntAccepts(s) ==
    LET b == IntBody(s)
    IN /\ b # <<>>
       /\ \A i \in 1..Len(b) : b[i] \in Digits \cup {"_"}
       /\ b[1] # "_" /\ b[Len(b)] # "_"
       /\ \A i \in 1..(Len(b) - 1) : ~(b[i] = "_" /\ b[i + 1] = "_")

\* the digits as written, leading zeros kept
KeepLeadingZeros(s) == SelectSeq(IntBody(s), LAMBDA c : c # "_")

\* str(int(s)) for an accepted s without a minus sign
IntStr(s) ==
    LET d == StripLeft(SelectSeq(IntBody(s), LAMBDA c : c # "_"), {"0"})
    IN IF d = <<>> THEN <<"0">> ELSE d

\* id_str.replace("-", "")
RemoveDashes(id_str) == SelectSeq(id_str, LAMBDA c : c # "-")

\* Transformer._standardize_id: the string returned, or the error naming id_str
StandardizeIdFails(id_str) == ~IntAccepts(RemoveDashes(id_str))

\* the value named by "Non-numeric ID encountered: {id_str}"
StandardizeIdNamed(id_str) == RemoveDashes(id_str)

StandardizeId(id_str) == IntStr(RemoveDashes(id_str))

\* .astype(str): a null cell becomes the text nan
AsTypeStr(cell) == IF cell = NullT THEN <<"n", "a", "n">> ELSE cell

RECURSIVE StandardizeLoop(_, _)
\* the for loop: each listed column is replaced in place before the next is looked at
StandardizeLoop(t, columns) ==
    IF columns = <<>> THEN Done(t, FALSE)
    ELSE LET col == Head(columns)
             bad == {i \in 1..Len(t.rows) : StandardizeIdFails(AsTypeStr(t.rows[i][col]))}
         IN IF col \notin Range(t.cols) THEN Raised(t, "ColumnsNotFound", <<col>>)
            ELSE IF bad # {}
            THEN LET i == CHOOSE x \in bad : \A y \in bad : x <= y
                 IN Raised(t, "InvalidIdValue",
                           <<StandardizeIdNamed(AsTypeStr(t.rows[i][col]))>>)
            ELSE StandardizeLoop(
                    [cols |-> t.cols,
                     rows |-> [i \in 1..Len(t.rows) |->
                                 [c \in Range(t.cols) |->
                                     IF c = col THEN StandardizeId(AsTypeStr(t.rows[i][c]))
                                     ELSE t.rows[i][c]]]],
                    Tail(columns))

standardize_id_columns(t, columns) == StandardizeLoop(t, columns)

(* ---------------- Transformer.add_group_order ---------------- *)
Perms(n) == {p \in [1..n -> 1..n] : \A i, j \in 1..n : i # j => p[i] # p[j]}

\* the row orders sort_values(by=group_columns) can produce: ascending, nulls last; on
\* several columns the sort is stable, on one column the default quicksort leaves the
\* order of equal keys open
SortOrders(t, group_columns) ==
    {p \in Perms(Len(t.rows)) :
        \A a, b \in 1..Len(t.rows) : a < b =>
            /\ ~KeyLess(t.rows[p[b]], t.rows[p[a]], group_columns)
            /\ (Len(group_columns) > 1 /\ SameKey(t.rows[p[a]], t.rows[p[b]], group_columns))
                 => p[a] < p[b]}

\* cumcount() alone: the numbering of a group starts at 0
CumCountFromZero(rows, n, group_columns) ==
    <<ToString(Cardinality({m \in 1..(n - 1) : SameKey(rows[m], rows[n], group_columns)}))>>

\* groupby(group_columns, dropna=False).cumcount() + 1, as a cell
CumCount(rows, n, group_columns) ==
    <<ToString(Cardinality({m \in 1..n : SameKey(rows[m], rows[n], group_columns)}))>>

WithOrderColumn(t, p, group_columns, name) ==
    LET sorted == [n \in 1..Len(t.rows) |-> t.rows[p[n]]]
        cols == IF name \in Range(t.cols) THEN t.cols ELSE Append(t.cols, name)
    IN [cols |-> cols,
        rows |-> [n \in 1..Len(sorted) |->
                    [c \in Range(cols) |->
                        IF c = name THEN CumCount(sorted, n, group_columns)
                        ELSE sorted[n][c]]]]

\* the set of outcomes
add_group_order(t, group_columns, order_column_name) ==
    IF group_columns = <<>> THEN {Raised(t, "InvalidParameters", <<>>)}
    ELSE IF MissingColumns(t, group_columns) # <<>>
    THEN {Raised(t, "ColumnsNotFound", MissingColumns(t, group_columns))}
    ELSE {Done(WithOrderColumn(t, p, group_columns, order_column_name), TRUE) :
            p \in SortOrders(t, group_columns)}

(* ---------------- dispatch of Transformer.run_transformations ---------------- *)
Operations == {<<"select_columns">>, <<"filter_rows">>, <<"drop_duplicates">>,
               <<"standardize_id_columns">>, <<"add_group_order">>}

Helpers == {<<"normalize_string">>, <<"_standardize_id">>, <<"run_transformations">>}

\* getattr(self, name, None): what the name resolves to on a Transformer instance
\* (dunder attributes are not among the names the configurations below use)
GetAttr(name) ==
    CASE name \in Operations -> "operation"
      [] name \in Helpers -> "helper"
      [] name = <<"df">> -> "df"
      [] name = <<"logger">> -> "logger"
      [] OTHER -> "none"

\* method(params) for a list or a scalar, method(**params) for a dict: the arguments by
\* parameter name; a missing or unexpected argument is a TypeError
Bind(params, names, required) ==
    IF params.kind = "dict"
    THEN [ok |-> DOMAIN params.d \subseteq Range(names) /\ required \subseteq DOMAIN params.d,
          args |-> params.d]
    ELSE [ok |-> required \subseteq {names[1]}, args |-> (names[1] :> params)]

\* iterating a list of names, or the characters of a bare string (a bare string whose
\* characters are all column names is not among the configurations below)
AsNames(v) ==
    IF v.kind = "list" THEN [i \in 1..Len(v.items) |-> v.items[i].s]
    ELSE [i \in 1..Len(v.s) |-> <<v.s[i]>>]

\* the outcomes of calling the attribute called name with the dispatched parameters
Invoke(name, params, t) ==
    CASE name = <<"select_columns">> ->
            LET b == Bind(params, <<"columns">>, {"columns"})
            IN IF ~b.ok THEN {Raised(t, "BadParameters", <<>>)}
               ELSE {select_columns(t, AsNames(b.args["columns"]))}
      [] name = <<"filter_rows">> ->
            LET b == Bind(params, <<"column", "operator", "values">>,
                          {"column", "operator", "values"})
            IN IF ~b.ok THEN {Raised(t, "BadParameters", <<>>)}
               ELSE IF b.args["column"].kind # "str" \/ b.args["operator"].kind # "str"
               THEN {Raised(t, "TypeError", <<>>)}
               ELSE {filter_rows(t, b.args["column"].s, b.args["operator"].s,
                                 b.args["values"])}
      [] name = <<"drop_duplicates">> ->
            LET b == Bind(params, <<"columns", "keep">>, {"columns"})
                keep == DictGet(b.args, "keep", PyStr(<<"first">>))
            IN IF ~b.ok THEN {Raised(t, "BadParameters", <<>>)}
               ELSE IF keep.kind # "str" THEN {Raised(t, "ValueError", <<>>)}
               ELSE {drop_duplicates(t, AsNames(b.args["columns"]), keep.s)}
      [] name = <<"standardize_id_columns">> ->
            LET b == Bind(params, <<"columns">>, {"columns"})
            IN IF ~b.ok THEN {Raised(t, "BadParameters", <<>>)}
               ELSE {standardize_id_columns(t, AsNames(b.args["columns"]))}
      [] name = <<"add_group_order">> ->
            LET b == Bind(params, <<"group_columns", "order_column_name">>, {"group_columns"})
                nm == DictGet(b.args, "order_column_name", PyStr(<<"order">>))
            IN IF ~b.ok THEN {Raised(t, "BadParameters", <<>>)}
               ELSE IF nm.kind # "str" THEN {Raised(t, "TypeError", <<>>)}
               ELSE add_group_order(t, AsNames(b.args["group_columns"]), nm.s)
      [] name = <<"normalize_string">> ->
            LET b == Bind(params, <<"s">>, {"s"})
            IN IF ~b.ok THEN {Raised(t, "BadParameters", <<>>)} ELSE {Done(t, FALSE)}
      [] name = <<"_standardize_id">> ->
            LET b == Bind(params, <<"id_str">>, {"id_str"})
            IN IF ~b.ok THEN {Raised(t, "BadParameters", <<>>)}
               ELSE IF b.args["id_str"].kind # "str" THEN {Raised(t, "AttributeError", <<>>)}
               ELSE IF StandardizeIdFails(b.args["id_str"].s)
               THEN {Raised(t, "InvalidIdValue", <<StandardizeIdNamed(b.args["id_str"].s)>>)}
               ELSE {Done(t, FALSE)}
      [] name = <<"run_transformations">> ->
            \* the nested run over a list of strings or over the characters of a string:
            \* nothing to do when empty, else its first item is not a dictionary
            LET b == Bind(params, <<"config">>, {"config"})
            IN IF ~b.ok THEN {Raised(t, "BadParameters", <<>>)}
               ELSE IF AsNames(b.args["config"]) = <<>> THEN {Done(t, FALSE)}
               ELSE {Raised(t, "InvalidFormat", <<>>)}
      [] name = <<"logger">> -> {Raised(t, "NotCallable", <<>>)}

(* ---------------- inputs of DataMerger ---------------- *)
KeyValues == {"c1", "c2"}

OrdersCols == <<"order_id", "customer_id">>
CustomersCols == <<"customer_id", "name">>

\* orders: one row per entry of ks, the i-th with order_id o<i> and customer_id ks[i]
Orders(ks) ==
    [cols |-> OrdersCols,
     rows |-> [i \in 1..Len(ks) |->
                 [c \in Range(OrdersCols) |->
                     IF c = "order_id" THEN "o" \o ToString(i) ELSE ks[i]]]]

\* customers: one row per entry of ks, the j-th with customer_id ks[j] and name n<j>
Customers(ks) ==
    [cols |-> CustomersCols,
     rows |-> [j \in 1..Len(ks) |->
                 [c \in Range(CustomersCols) |->
                     IF c = "name" THEN "n" \o ToString(j) ELSE ks[j]]]]

Registry(ko, kc) == [n \in {"orders", "customers"} |->
                        IF n = "orders" THEN Orders(ko) ELSE Customers(kc)]

\* the sample tables: an order without customer, a customer id held by two customers
SampleRegistry == Registry(<<"c1", "c2">>, <<"c1", "c1">>)

AllRegistries == {Registry(ko, kc) : ko \in SeqsUpTo(KeyValues, MaxRows),
                                     kc \in SeqsUpTo(KeyValues, MaxRows)}

\* join-step descriptors: dicts, with optional keys left out
WithOpt(d, k, v) == IF v = None THEN d ELSE DictSet(d, k, v)

MergeStepOf(s, w, jt, out) ==
    WithOpt(WithOpt([source |-> s, join_with |-> w,
                     join_on |-> <<(s :> "customer_id"), (w :> "customer_id")>>],
                    "join_type", jt), "output", out)

ConcatStepOf(names, out) ==
    WithOpt([type |-> "concat", dataframes |-> names, ignore_index |-> TRUE], "output", out)

MergeStepSet ==
    {MergeStepOf(s, w, jt, out) : s \in {"orders", "joined"}, w \in {"customers", "ghost"},
                                  jt \in {"left", None}, out \in {"joined", None}}
    \cup {[type |-> "merge", source |-> "orders", join_with |-> "customers",
           join_on |-> <<("orders" :> "order_id"), ("customers" :> "customer_id")>>,
           join_type |-> "right", output |-> "keyed"],
          [type |-> "merge", source |-> "customers", join_with |-> "orders",
           join_on |-> <<("orders" :> "customer_id"), ("customers" :> "customer_id")>>,
           join_type |-> "inner", output |-> "swapped"],
          [type |-> "merge", source |-> "orders", join_with |-> "customers",
           join_on |-> <<("orders" :> "customer_id"), ("customers" :> "customer_id")>>,
           join_type |-> "cross", output |-> "joined"]}

ConcatStepSet ==
    {ConcatStepOf(names, out) : names \in {<<"orders", "customers">>, <<"joined", "orders">>,
                                           <<"ghost">>, <<>>},
                                out \in {"joined", None}}

OtherStepSet == {[type |-> "union", output |-> "joined"]}

JoinSteps == MergeStepSet \cup ConcatStepSet \cup OtherStepSet

(* ---------------- state of DataMerger.run_joins ---------------- *)
VARIABLES
    dfs_dict,            \* self.dfs_dict: the registry, name -> table
    join_configuration,  \* self.join_configuration
    step,                \* the step counter
    jpos,                \* number of steps the for loop has taken from the list
    final_left_file,     \* the running candidate for the final name
    left_df, right_df,   \* the tables a merge step resolved
    dfs_to_concat,       \* the tables a concat step resolved
    result_df,           \* the result of the last step that computed one
    written,             \* the output folder: artifacts written, in order
    jpc,                 \* "loop", "raised" or "returned"
    error,               \* the exception that left run_joins
    returned             \* the value run_joins returned

jvars == <<dfs_dict, join_configuration, step, jpos, final_left_file, left_df, right_df,
           dfs_to_concat, result_df, written, jpc, error, returned>>

(* ---------------- state of Transformer.run_transformations ---------------- *)
VARIABLES
    df,                      \* self.df: the table under transformation
    input_df,                \* the table object the caller passed to Transformer(logger, df)
    aliased,                 \* self.df is still that object
    loaded,                  \* the table as the loader produced it
    config,                  \* the list of transformations
    tpos,                    \* transformations taken from the list (idx of the current one)
    epos,                    \* entries of the current transformation dict already handled
    method_name_normalized,  \* of the entry handled last
    params_normalized,       \* of the entry handled last
    applied,                 \* the entries logged as "Successfully applied", in order
    tpc,                     \* "loop", "raised" or "returned"
    terror,                  \* the exception that left run_transformations
    treturned                \* the table run_transformations returned

tvars == <<df, input_df, aliased, loaded, config, tpos, epos, method_name_normalized,
           params_normalized, applied, tpc, terror, treturned>>

(* ---------------- state of main ---------------- *)
VARIABLES
    raw_joins,         \* the 'joins' section ConfigParser.get_joins reads
    output_file_name,  \* settings.get('output_file_name')
    final_output,      \* the final output file written
    mpc,               \* "joins" while main is in run_joins, then "done" or "raised"
    merror             \* the exception main itself raised

mvars == <<raw_joins, output_file_name, final_output, mpc, merror>>

vars == <<jvars, tvars, mvars>>

Unbound == "<unbound>"
NoError == [kind |-> "none", step |-> 0]
NoReturn == [none |-> TRUE]

InitJ(reg, cfg) ==
    /\ dfs_dict = reg
    /\ join_configuration = cfg
    /\ step = 1
    /\ jpos = 0
    /\ final_left_file = Unbound
    /\ left_df = NoneDF
    /\ right_df = NoneDF
    /\ dfs_to_concat = <<>>
    /\ result_df = NoneDF
    /\ written = <<>>
    /\ jpc = "loop"
    /\ error = NoError
    /\ returned = NoReturn

\* no DataMerger has been constructed
JoinIdle ==
    /\ dfs_dict = <<>>
    /\ join_configuration = <<>>
    /\ step = 1
    /\ jpos = 0
    /\ final_left_file = Unbound
    /\ left_df = NoneDF
    /\ right_df = NoneDF
    /\ dfs_to_concat = <<>>
    /\ result_df = NoneDF
    /\ written = <<>>
    /\ jpc = "idle"
    /\ error = NoError
    /\ returned = NoReturn

(* ---------------- inputs of the Transformer ---------------- *)
\* column names: id, g and n + e-acute
ID == <<"id">>
G == <<"g">>
NM == <<"n", "U+00E9">>
\* the same name and the same letter as a configuration file may spell them: decomposed
NMDecomposed == <<"n", "e", "U+0301">>
EAcute == <<"U+00E9">>
EAcuteDecomposed == <<"e", "U+0301">>

TRow(id, g, nm) == [c \in {ID, G, NM} |-> IF c = ID THEN id ELSE IF c = G THEN g ELSE nm]

TablePool ==
    {[cols |-> <<ID, G, NM>>,
      rows |-> <<TRow(<<"0", "1", "-", "2">>, <<"b">>, EAcute),
                 TRow(<<"1", "2">>, <<"a">>, <<"e">>),
                 TRow(<<"0", "-", "1", "2">>, <<"a">>, EAcute)>>],
     [cols |-> <<ID, G, NM>>,
      rows |-> <<TRow(<<"7">>, NullT, <<"e">>),
                 TRow(<<"1", "a">>, <<"b">>, EAcute),
                 TRow(<<"7">>, NullT, <<"e">>)>>]}

Names(ss) == PyList([i \in 1..Len(ss) |-> PyStr(ss[i])])

\* one transformation of the list: a dict of method name -> parameters, in insertion
\* order, or something that is not a dict
Transformation(entries) == [isdict |-> TRUE, entries |-> entries]
NotADict == [isdict |-> FALSE, entries |-> <<>>]
Entry(name, params) == [name |-> name, params |-> params]
One(name, params) == Transformation(<<Entry(name, params)>>)

Transformations ==
    {One(<<"select_columns">>, Names(<<ID, NMDecomposed>>)),
     One(<<"select_columns">>, PyStr(EAcuteDecomposed)),
     One(<<"filter_rows">>, PyDict([column |-> PyStr(NMDecomposed),
                                    operator |-> PyStr(<<"is_in">>),
                                    values |-> Names(<<EAcuteDecomposed>>)])),
     One(<<"filter_rows">>, PyDict([column |-> PyStr(G),
                                    operator |-> PyStr(<<"not_in">>),
                                    values |-> Names(<<<<"a">>>>)])),
     One(<<"drop_duplicates">>, PyDict([columns |-> Names(<<G>>), keep |-> PyStr(<<"last">>)])),
     One(<<"drop_duplicates">>, Names(<<ID>>)),
     One(<<"standardize_id_columns">>, Names(<<ID>>)),
     One(<<"standardize_id_columns">>, Names(<<ID, G>>)),
     One(<<"add_group_order">>, PyDict([group_columns |-> Names(<<G>>),
                                        order_column_name |-> PyStr(<<"order">>)])),
     One(<<"add_group_order">>, Names(<<G, ID>>)),
     One(<<"normalize_string">>, Names(<<ID>>)),
     One(<<"df">>, Names(<<ID>>)),
     One(<<"logger">>, Names(<<ID>>)),
     One(<<"rename_columns">>, Names(<<ID>>)),
     Transformation(<<Entry(<<"select_columns">>, Names(<<G, ID>>)),
                      Entry(<<"drop_duplicates">>, Names(<<G>>))>>),
     Transformation(<<>>),
     NotADict}

NoTError == [kind |-> "none", op |-> <<>>, index |-> 0, value |-> <<>>]

\* Transformer(logger, table), and the list handed to run_transformations
InitT(table, cfg) ==
    /\ df = table
    /\ input_df = table
    /\ aliased = TRUE
    /\ loaded = table
    /\ config = cfg
    /\ tpos = 0
    /\ epos = 0
    /\ method_name_normalized = <<>>
    /\ params_normalized = PyStr(<<>>)
    /\ applied = <<>>
    /\ tpc = "loop"
    /\ terror = NoTError
    /\ treturned = NoneDF

\* no Transformer has been constructed
TransformerIdle ==
    /\ df = NoneDF
    /\ input_df = NoneDF
    /\ aliased = FALSE
    /\ loaded = NoneDF
    /\ config = <<>>
    /\ tpos = 0
    /\ epos = 0
    /\ method_name_normalized = <<>>
    /\ params_normalized = PyStr(<<>>)
    /\ applied = <<>>
    /\ tpc = "idle"
    /\ terror = NoTError
    /\ treturned = NoneDF

(* ---------------- inputs of main ---------------- *)
\* a file name is the sequence of its parts, "." being the separator
OutputFileNames ==
    {<<"out", ".", "csv">>, <<"out", ".", "xlsx">>, <<"out", ".", "CSV">>,
     <<"out", ".", "parquet">>, <<"out", ".", "csv", ".", "gz">>,
     <<"a", ".", "b", ".", "xlsx">>, <<"out">>, <<"csv">>, <<"out", ".">>}

\* the 'joins' section of a configuration file: steps as a user writes them
MainSteps ==
    {MergeStepOf("orders", "customers", "left", "joined"),
     MergeStepOf("orders", "customers", None, None),
     ConcatStepOf(<<"orders", "customers">>, "stacked"),
     ConcatStepOf(<<"customers">>, None)}

(* ---------------- ConfigParser.get_joins ---------------- *)
\* j.get(key): the value, None when the key is absent
Get(j, k) == DictGet(j, k, None)

\* the dictionary built for one raw join; the default of join_on is an empty dict
join_info(j) ==
    [source |-> Get(j, "source"),
     join_with |-> Get(j, "join_with"),
     join_type |-> Get(j, "join_type"),
     join_on |-> DictGet(j, "join_on", <<>>)]

get_joins(raw) == [k \in 1..Len(raw) |-> join_info(raw[k])]

NoName == <<>>
NoFile == [none |-> TRUE]
NoMainError == [kind |-> "none", value |-> <<>>]

\* main is not running: the DataMerger or the Transformer is driven directly
MainIdle ==
    /\ raw_joins = <<>>
    /\ output_file_name = NoName
    /\ final_output = NoFile
    /\ mpc = "idle"
    /\ merror = NoMainError

\* main, lines 22-27 and 61: the settings and the joins read from the configuration,
\* the DataMerger built on the loaded tables and the parsed joins
InitMain(reg, raw, name) ==
    /\ raw_joins = raw
    /\ output_file_name = name
    /\ final_output = NoFile
    /\ mpc = "joins"
    /\ merror = NoMainError
    /\ InitJ(reg, get_joins(raw))

Init ==
    /\ TransformerIdle
    /\ \/ MainIdle /\ \E cfg \in SeqsUpTo(JoinSteps, MaxSteps) : InitJ(SampleRegistry, cfg)
       \/ MainIdle /\ \E reg \in AllRegistries, js \in JoinSteps : InitJ(reg, <<js>>)
       \/ \E raw \in SeqsUpTo(MainSteps, MaxSteps), name \in OutputFileNames :
             InitMain(SampleRegistry, raw, name)

InitTransformer ==
    /\ JoinIdle
    /\ MainIdle
    /\ \E table \in TablePool, cfg \in SeqsUpTo(Transformations, MaxTransformations) :
          InitT(table, cfg)

(* ---------------- DataMerger.run_joins ---------------- *)
\* the loop variable of the iteration about to run
join_step == join_configuration[jpos + 1]

operation_type == DictGet(join_step, "type", "merge")

output_name == DictGet(join_step, "output", "join_step" \o ToString(step))

\* f"step{step}_{output_name}.csv"
ZeroBasedFilename(n, out) == "step" \o ToString(n - 1) \o "_" \o out \o ".csv"

output_filename(n, out) == "step" \o ToString(n) \o "_" \o out \o ".csv"

\* except Exception: log the error and re-raise
SwallowError == "loop"

AfterError == "raised"

\* final_left_file = left_file
CandidateIsOutput(left_file, out) == out

MergeCandidate(left_file, out) == left_file

InLoop == jpc = "loop" /\ jpos < Len(join_configuration)

\* an exception leaves the try block at this step; finally: step += 1
Fails(kind) ==
    /\ UNCHANGED <<tvars, mvars>>
    /\ jpc' = AfterError
    /\ error' = [kind |-> kind, step |-> step]
    /\ step' = step + 1
    /\ jpos' = jpos + 1
    /\ UNCHANGED <<join_configuration, returned, written>>

\* result_df.to_csv(output_path) succeeded; finally: step += 1
Saves(res) ==
    /\ UNCHANGED <<tvars, mvars>>
    /\ written' = Append(written, [name |-> output_filename(step, output_name), df |-> res])
    /\ jpc' = "loop"
    /\ error' = NoError
    /\ step' = step + 1
    /\ jpos' = jpos + 1
    /\ UNCHANGED <<join_configuration, returned>>

MergeStep ==
    /\ InLoop
    /\ operation_type = "merge"
    /\ UNCHANGED dfs_to_concat
    /\ IF "join_on" \notin DOMAIN join_step \/ Len(join_step.join_on) < 2
       THEN \* keys[0] / keys[1] raises
            /\ Fails("KeyLookup")
            /\ UNCHANGED <<dfs_dict, final_left_file, left_df, right_df, result_df>>
       ELSE LET left_file == DictGet(join_step, "source", None)
                right_file == DictGet(join_step, "join_with", None)
                keys == join_step.join_on
                left_key == DictGet(keys[1], left_file, None)
                right_key == DictGet(keys[2], right_file, None)
                how == DictGet(join_step, "join_type", "inner")
                l == DictGet(dfs_dict, left_file, NoneDF)
                r == DictGet(dfs_dict, right_file, NoneDF)
            IN /\ left_df' = l
               /\ right_df' = r
               /\ IF IsNone(l) \/ IsNone(r)
                  THEN /\ Fails("NotFound")
                       /\ UNCHANGED <<dfs_dict, final_left_file, result_df>>
                  ELSE IF MergeFails(l, r, left_key, right_key, how)
                  THEN /\ Fails("MergeError")
                       /\ UNCHANGED <<dfs_dict, final_left_file, result_df>>
                  ELSE LET res == merge(l, r, left_key, right_key, how)
                       IN /\ result_df' = res
                          /\ dfs_dict' = DictSet(dfs_dict, left_file, res)
                          /\ final_left_file' = MergeCandidate(left_file, output_name)
                          /\ \E write_ok \in BOOLEAN :
                                IF write_ok THEN Saves(res) ELSE Fails("WriteError")

ConcatStep ==
    /\ InLoop
    /\ operation_type = "concat"
    /\ UNCHANGED <<left_df, right_df>>
    /\ LET dataframes == DictGet(join_step, "dataframes", <<>>)
           found == Lookup(dfs_dict, dataframes)
           missing == {k \in 1..Len(found) : IsNone(found[k])}
       IN IF missing # {}
          THEN \* the lookup loop raises at the first missing name
               /\ dfs_to_concat' = SubSeq(found, 1, (CHOOSE k \in missing : \A m \in missing : k <= m) - 1)
               /\ Fails("NotFound")
               /\ UNCHANGED <<dfs_dict, final_left_file, result_df>>
          ELSE /\ dfs_to_concat' = found
               /\ IF ConcatFails(found)
                  THEN /\ Fails("ConcatError")
                       /\ UNCHANGED <<dfs_dict, final_left_file, result_df>>
                  ELSE LET res == concat(found)
                       IN /\ result_df' = res
                          /\ dfs_dict' = DictSet(dfs_dict, output_name, res)
                          /\ final_left_file' = output_name
                          /\ \E write_ok \in BOOLEAN :
                                IF write_ok THEN Saves(res) ELSE Fails("WriteError")

UnknownTypeStep ==
    /\ InLoop
    /\ operation_type \notin {"merge", "concat"}
    /\ Fails("UnknownType")
    /\ UNCHANGED <<dfs_dict, final_left_file, left_df, right_df, dfs_to_concat, result_df>>

\* return self.dfs_dict, final_left_file
Return ==
    /\ jpc = "loop"
    /\ jpos = Len(join_configuration)
    /\ IF final_left_file = Unbound
       THEN \* no step assigned it: UnboundLocalError
            /\ jpc' = "raised"
            /\ error' = [kind |-> "UnboundLocalError", step |-> step]
            /\ UNCHANGED returned
       ELSE /\ jpc' = "returned"
            /\ returned' = [registry |-> dfs_dict, name |-> final_left_file]
            /\ UNCHANGED error
    /\ UNCHANGED <<dfs_dict, join_configuration, step, jpos, final_left_file, left_df,
                   right_df, dfs_to_concat, result_df, written>>
    /\ UNCHANGED <<tvars, mvars>>

(* ---------------- main, after run_joins ---------------- *)
RECURSIVE AfterLastDot(_)
\* output_file_name.rsplit(".", 1)[-1]: what follows the last ".", the whole name when
\* it holds none
AfterLastDot(name) ==
    IF name = <<>> THEN <<>>
    ELSE IF name[Len(name)] = "." THEN <<>>
    ELSE IF \A i \in 1..Len(name) : name[i] # "." THEN name
    ELSE LET rest == AfterLastDot(SubSeq(name, 1, Len(name) - 1))
         IN Append(rest, name[Len(name)])

output_file_type == AfterLastDot(output_file_name)

\* the types main writes
SupportedTypes == {<<"csv">>, <<"xlsx">>}

\* lines 63-78: the final table is written by type, or the type is refused
FinalOutput ==
    /\ mpc = "joins"
    /\ jpc = "returned"
    /\ IF output_file_type \in SupportedTypes
       THEN \E write_ok \in BOOLEAN :
               IF write_ok
               THEN /\ final_output' = [name |-> output_file_name, type |-> output_file_type,
                                        df |-> returned.registry[returned.name]]
                    /\ mpc' = "done"
                    /\ UNCHANGED merror
               ELSE /\ mpc' = "raised"
                    /\ merror' = [kind |-> "WriteError", value |-> output_file_name]
                    /\ UNCHANGED final_output
       ELSE /\ mpc' = "raised"
            /\ merror' = [kind |-> "UnknownOutputType", value |-> output_file_type]
            /\ UNCHANGED final_output
    /\ UNCHANGED <<raw_joins, output_file_name>>
    /\ UNCHANGED <<jvars, tvars>>

Next == MergeStep \/ ConcatStep \/ UnknownTypeStep \/ Return \/ FinalOutput

Spec == Init /\ [][Next]_vars

(* ---------------- Transformer.run_transformations ---------------- *)
\* the transformation and the entry of it the loops are about to handle
transformation == config[tpos + 1]
entry == transformation.entries[epos + 1]

TInLoop == tpc = "loop" /\ tpos < Len(config)
AtEntry == TInLoop /\ transformation.isdict /\ epos < Len(transformation.entries)

\* except Exception: log the error and re-raise
LogAndContinue == "loop"

AfterTransformError == "raised"

\* the iterators of the two for loops move on
Advance ==
    IF epos + 1 >= Len(transformation.entries)
    THEN tpos' = tpos + 1 /\ epos' = 0
    ELSE epos' = epos + 1 /\ UNCHANGED tpos

\* lines 114-120
Normalizes ==
    /\ method_name_normalized' = normalize_string(PyStr(entry.name)).s
    /\ params_normalized' = NormalizeParams(entry.params)

\* lines 108-110: the item is not a dictionary
TInvalidFormat ==
    /\ TInLoop
    /\ ~transformation.isdict
    /\ tpc' = AfterTransformError
    /\ terror' = [kind |-> "InvalidFormat", op |-> <<>>, index |-> tpos + 1, value |-> <<>>]
    /\ tpos' = tpos + 1
    /\ UNCHANGED <<df, input_df, aliased, loaded, config, epos, method_name_normalized,
                   params_normalized, applied, treturned>>
    /\ UNCHANGED <<jvars, mvars>>

\* a dictionary without entries: the inner loop has nothing to do
TEmptyDict ==
    /\ TInLoop
    /\ transformation.isdict
    /\ transformation.entries = <<>>
    /\ tpos' = tpos + 1
    /\ UNCHANGED <<df, input_df, aliased, loaded, config, epos, method_name_normalized,
                   params_normalized, applied, tpc, terror, treturned>>
    /\ UNCHANGED <<jvars, mvars>>

\* lines 123-127: getattr finds nothing
TUnknownMethod ==
    /\ AtEntry
    /\ GetAttr(NFC(entry.name)) = "none"
    /\ Normalizes
    /\ Advance
    /\ tpc' = AfterTransformError
    /\ terror' = [kind |-> "UnknownOperation", op |-> NFC(entry.name), index |-> 0,
                  value |-> <<>>]
    /\ UNCHANGED <<df, input_df, aliased, loaded, config, applied, treturned>>
    /\ UNCHANGED <<jvars, mvars>>

\* line 125: "not method" on the DataFrame attribute raises ValueError
TDataFrameAttr ==
    /\ AtEntry
    /\ GetAttr(NFC(entry.name)) = "df"
    /\ Normalizes
    /\ Advance
    /\ tpc' = "raised"
    /\ terror' = [kind |-> "AmbiguousTruth", op |-> <<>>, index |-> 0, value |-> <<>>]
    /\ UNCHANGED <<df, input_df, aliased, loaded, config, applied, treturned>>
    /\ UNCHANGED <<jvars, mvars>>

\* lines 129-139: the attribute is called with the dispatched parameters
TApply ==
    /\ AtEntry
    /\ GetAttr(NFC(entry.name)) \in {"operation", "helper", "logger"}
    /\ Normalizes
    /\ Advance
    /\ \E out \in Invoke(NFC(entry.name), NormalizeParams(entry.params), df) :
          /\ df' = out.df
          /\ aliased' = (aliased /\ ~out.rebinds)
          /\ input_df' = IF aliased /\ ~out.rebinds THEN out.df ELSE input_df
          /\ IF out.ok
             THEN /\ applied' = Append(applied, Entry(NFC(entry.name),
                                                      NormalizeParams(entry.params)))
                  /\ UNCHANGED <<tpc, terror>>
             ELSE /\ tpc' = AfterTransformError
                  /\ terror' = [kind |-> out.kind, op |-> <<>>, index |-> 0,
                                value |-> out.value]
                  /\ UNCHANGED applied
    /\ UNCHANGED <<loaded, config, treturned>>
    /\ UNCHANGED <<jvars, mvars>>

\* line 142: return self.df
TReturn ==
    /\ tpc = "loop"
    /\ tpos = Len(config)
    /\ tpc' = "returned"
    /\ treturned' = df
    /\ UNCHANGED <<df, input_df, aliased, loaded, config, tpos, epos, method_name_normalized,
                   params_normalized, applied, terror>>
    /\ UNCHANGED <<jvars, mvars>>

NextTransformer ==
    TInvalidFormat \/ TEmptyDict \/ TUnknownMethod \/ TDataFrameAttr \/ TApply \/ TReturn

SpecTransformer == InitTransformer /\ [][NextTransformer]_vars

(* ---------------- single operations of the Transformer on arbitrary tables ---------------- *)
\* rows over the columns id and g: ids with dashes and leading zeros, an id with a
\* letter after a dash, a signed id, and rows whose g is null
ORow(id, g) == [c \in {ID, G} |-> IF c = ID THEN id ELSE g]

RowPool ==
    {ORow(<<"0", "-", "1", "2">>, <<"a">>),
     ORow(<<"1", "2">>, <<"b">>),
     ORow(<<"1", "-", "a">>, <<"a">>),
     ORow(<<"+", "7">>, NullT),
     ORow(<<"7">>, NullT)}

Tables == {[cols |-> <<ID, G>>, rows |-> rs] : rs \in SeqsUpTo(RowPool, MaxRows)}

FilterCall(column, operator, values) ==
    One(<<"filter_rows">>, PyDict([column |-> PyStr(column), operator |-> PyStr(operator),
                                   values |-> Names(values)]))

StandardizeCall(columns) == One(<<"standardize_id_columns">>, Names(columns))

SelectCall(columns) == One(<<"select_columns">>, Names(columns))

DropCall(columns) == One(<<"drop_duplicates">>, Names(columns))

DropKeepCall(columns, keep) ==
    One(<<"drop_duplicates">>, PyDict([columns |-> Names(columns), keep |-> PyStr(keep)]))

GroupOrderCall(group_columns) == One(<<"add_group_order">>, Names(group_columns))

ValueSets == {<<<<"a">>>>, <<<<"1", "2">>, <<"7">>>>, <<>>}

\* the runs: one operation, or two in a row
OperationRuns ==
    {<<StandardizeCall(<<ID>>)>>,
     <<StandardizeCall(<<ID>>), StandardizeCall(<<ID>>)>>,
     <<SelectCall(<<G, ID>>)>>, <<SelectCall(<<ID>>)>>, <<SelectCall(<<>>)>>,
     <<SelectCall(<<NM, G, <<"x">>>>)>>,
     <<DropCall(<<G>>)>>, <<DropCall(<<G, ID>>)>>, <<DropKeepCall(<<ID>>, <<"first">>)>>,
     <<DropKeepCall(<<G>>, <<"last">>)>>,
     <<GroupOrderCall(<<G>>)>>, <<GroupOrderCall(<<G, ID>>)>>, <<GroupOrderCall(<<ID>>)>>}
    \cup {<<FilterCall(c, <<"is_in">>, V), FilterCall(c, <<"not_in">>, V)>> :
            c \in {ID, G}, V \in ValueSets}
    \cup {<<FilterCall(G, <<"not_in">>, V)>> : V \in ValueSets}

InitOperations ==
    /\ JoinIdle
    /\ MainIdle
    /\ \E table \in Tables, cfg \in OperationRuns : InitT(table, cfg)

NextOperations == TApply \/ TReturn

SpecOperations == InitOperations /\ [][NextOperations]_vars

(* ======================= properties of run_joins ======================= *)
RECURSIVE SumSeq(_)
SumSeq(ns) == IF ns = <<>> THEN 0 ELSE Head(ns) + SumSeq(Tail(ns))

\* the step the loop ran last, its step number and the output name it computed
LastStep == join_configuration[jpos]
LastOutput == DictGet(LastStep, "output", "join_step" \o ToString(step - 1))
LastType == DictGet(LastStep, "type", "merge")

\* the last iteration ran a step of this type to its end, artifact included
JustRan(type) == jpos > 0 /\ jpc = "loop" /\ LastType = type

\* C1: after a merge step the registry binds the join result under the step's source
\* name and under its declared output name.
C1_BoundUnderBothNames ==
    (JustRan("merge") /\ "output" \in DOMAIN LastStep) =>
        /\ LastStep.source \in DOMAIN dfs_dict
        /\ dfs_dict[LastStep.source] = result_df
        /\ LastStep.output \in DOMAIN dfs_dict
        /\ dfs_dict[LastStep.output] = result_df

\* C2: a failure to write a step's artifact does not abort run_joins.
C2_WriteFailureNotFatal == ~(jpc = "raised" /\ error.kind = "WriteError")

\* the step about to run names a table that the registry does not bind
StepUnresolved ==
    /\ InLoop
    /\ \/ /\ operation_type = "merge"
          /\ \/ DictGet(join_step, "source", None) \notin DOMAIN dfs_dict
             \/ DictGet(join_step, "join_with", None) \notin DOMAIN dfs_dict
       \/ /\ operation_type = "concat"
          /\ \E n \in Range(DictGet(join_step, "dataframes", <<>>)) : n \notin DOMAIN dfs_dict

\* C3: a step that names an unbound table aborts run_joins at that step: the error
\* carries that step's number, no artifact is written for it, nothing is returned, and
\* once the error is raised no further step runs.
C3_UnresolvedAborts ==
    /\ [][StepUnresolved =>
            /\ jpc' = "raised"
            /\ error'.step = step
            /\ written' = written
            /\ returned' = NoReturn]_vars
    /\ [][jpc # "raised"]_vars
    /\ [](error.kind = "NotFound" =>
            /\ jpc = "raised"
            /\ returned = NoReturn
            /\ jpos = error.step
            /\ Len(written) = error.step - 1)

C3_Witness ==
    /\ jpc = "raised"
    /\ error.kind = "NotFound"
    /\ error.step = 2
    /\ Len(written) = 1
    /\ LastType = "concat"

\* C4: when a non-empty step list has run to completion, the returned name is the
\* running candidate of the last step (source of a merge, output of a concat), it is
\* bound in the returned registry, and bound to the last step's result table.
C4_FinalNameIsLastCandidate ==
    (jpc = "returned" /\ Len(join_configuration) > 0) =>
        /\ returned.name = (IF LastType = "merge" THEN LastStep.source ELSE LastOutput)
        /\ returned.name \in DOMAIN returned.registry
        /\ returned.registry[returned.name] = result_df

C4_Witness ==
    /\ jpc = "returned"
    /\ Len(join_configuration) = 2
    /\ DictGet(join_configuration[1], "type", "merge") = "concat"
    /\ LastType = "merge"
    /\ DictGet(LastStep, "output", None) # LastStep.source

\* C5: steps run in configured order, one step number per step; the k-th artifact
\* written is step<k>_<output name of step k>.csv and holds a table, and it is written
\* before step k+1 starts.
C5_ArtifactsInStepOrder ==
    /\ step = jpos + 1
    /\ \A k \in 1..Len(written) :
          written[k].name = "step" \o ToString(k) \o "_"
                            \o DictGet(join_configuration[k], "output",
                                       "join_step" \o ToString(k)) \o ".csv"
    /\ jpc \in {"loop", "returned"} => Len(written) = jpos
    /\ jpc = "raised" /\ jpos > 0 => Len(written) = jpos - 1
    /\ JustRan(LastType) => written[jpos].df = result_df

C5_Witness ==
    /\ Len(written) = 2
    /\ written[1].name = "step1_joined.csv"
    /\ written[2].name = "step2_join_step2.csv"

\* the last iteration ran a left merge to its end
LeftMergeDone == JustRan("merge") /\ DictGet(LastStep, "join_type", "inner") = "left"

LastLeftKey == DictGet(LastStep.join_on[1], LastStep.source, None)
LastRightKey == DictGet(LastStep.join_on[2], LastStep.join_with, None)

\* the name a column of the source / of join_with carries in the result
InResultL(c) == LeftName(left_df, right_df, LastLeftKey, LastRightKey, c)
InResultR(c) == RightName(left_df, right_df, LastLeftKey, LastRightKey, c)

\* number of rows of join_with whose key equals the key of row i of the source
MatchCount(i) ==
    Cardinality({j \in 1..Len(right_df.rows) :
                    right_df.rows[j][LastRightKey] = left_df.rows[i][LastLeftKey]})

EveryLeftRowKept ==
    \A i \in 1..Len(left_df.rows) : \E n \in 1..Len(result_df.rows) :
        \A c \in Range(left_df.cols) : result_df.rows[n][InResultL(c)] = left_df.rows[i][c]

RightPopulatedOrNull ==
    \A n \in 1..Len(result_df.rows) :
        LET key == result_df.rows[n][InResultL(LastLeftKey)]
            m == {j \in 1..Len(right_df.rows) : right_df.rows[j][LastRightKey] = key}
            rc == Range(RightKept(right_df, LastLeftKey, LastRightKey))
        IN IF m = {}
           THEN \A c \in rc : result_df.rows[n][InResultR(c)] = NULL
           ELSE \E j \in m : \A c \in rc : result_df.rows[n][InResultR(c)] = right_df.rows[j][c]

\* C6 as stated: a left merge keeps every source row, fills the join_with columns where
\* a matching key exists and with null otherwise, and has as many rows as the source.
C6_LeftMergeRowCountEqual ==
    LeftMergeDone =>
        /\ EveryLeftRowKept
        /\ RightPopulatedOrNull
        /\ Len(result_df.rows) = Len(left_df.rows)

\* C6 amended: a left merge keeps every source row and fills the join_with columns
\* where a matching key exists and with null otherwise; each source row appears once
\* per matching join_with row (once when there is none), so the row count equals the
\* source's exactly when no source row's key occurs twice in join_with.
C6_LeftMergeKeepsSourceRows ==
    LeftMergeDone =>
        /\ EveryLeftRowKept
        /\ RightPopulatedOrNull
        /\ Len(result_df.rows) =
              SumSeq([i \in 1..Len(left_df.rows) |->
                         IF MatchCount(i) = 0 THEN 1 ELSE MatchCount(i)])
        /\ (\A i \in 1..Len(left_df.rows) : MatchCount(i) <= 1)
              <=> Len(result_df.rows) = Len(left_df.rows)

C6_Witness ==
    /\ LeftMergeDone
    /\ Len(left_df.rows) = 2
    /\ MatchCount(1) = 2
    /\ MatchCount(2) = 0
    /\ Len(result_df.rows) = 3

\* C7: a concat step stacks the rows of the named tables in listed order; the columns
\* are the union of the inputs' columns, a cell is null where the row's table lacks the
\* column, and the result is bound under the step's output name.
C7_ConcatStacksWithUnionColumns ==
    JustRan("concat") =>
        LET names == DictGet(LastStep, "dataframes", <<>>)
            dfs == dfs_to_concat
            offset(k) == SumSeq([m \in 1..(k - 1) |-> Len(dfs[m].rows)])
        IN /\ Len(dfs) = Len(names)
           /\ \A k \in 1..Len(names) :
                 names[k] # LastOutput => dfs[k] = dfs_dict[names[k]]
           /\ Range(result_df.cols) = UNION {Range(dfs[k].cols) : k \in 1..Len(dfs)}
           /\ Len(result_df.rows) = SumSeq([k \in 1..Len(dfs) |-> Len(dfs[k].rows)])
           /\ \A k \in 1..Len(dfs) : \A i \in 1..Len(dfs[k].rows) :
                 \A c \in Range(result_df.cols) :
                    result_df.rows[offset(k) + i][c] =
                        (IF c \in Range(dfs[k].cols) THEN dfs[k].rows[i][c] ELSE NULL)
           /\ LastOutput \in DOMAIN dfs_dict
           /\ dfs_dict[LastOutput] = result_df

C7_Witness ==
    /\ JustRan("concat")
    /\ Len(dfs_to_concat) = 2
    /\ Len(result_df.rows) = 4
    /\ result_df.rows[1]["name"] = NULL
    /\ result_df.rows[3]["order_id"] = NULL
    /\ result_df.rows[3]["name"] = "n1"

(* ================== properties of run_transformations ================== *)
\* the entries of the configured transformations, in configured order
FlatEntries == Flatten([k \in 1..Len(config) |-> config[k].entries])

\* an entry as the loop dispatches it
Dispatched(e) == Entry(NFC(e.name), NormalizeParams(e.params))

\* number of entries the loops have taken so far
Handled == SumSeq([k \in 1..tpos |-> Len(config[k].entries)]) + epos

RECURSIVE Reach(_, _)
\* the tables that applying the entries es, in order and each with success, to the table
\* t can yield
Reach(t, es) ==
    IF es = <<>> THEN {t}
    ELSE LET last == es[Len(es)]
             outs == UNION {Invoke(last.name, last.params, u) :
                              u \in Reach(t, SubSeq(es, 1, Len(es) - 1))}
         IN {o.df : o \in {x \in outs : x.ok}}

\* C8: the entries are applied strictly in configured order, none skipped, each to the
\* table the previous one produced; the first entry or item that fails raises, and
\* nothing is applied after it.
C8_InOrderFailFast ==
    /\ [](applied = [k \in 1..Len(applied) |-> Dispatched(FlatEntries[k])])
    /\ [](tpc = "loop" => Len(applied) = Handled)
    /\ [](tpc = "returned" => Len(applied) = Len(FlatEntries) /\ treturned = df)
    /\ [](tpc \in {"loop", "returned"} => df \in Reach(loaded, applied))
    /\ [](terror # NoTError => tpc = "raised" /\ Len(applied) \in {Handled - 1, Handled})
    /\ [][tpc # "raised"]_vars

C8_Witness ==
    /\ tpc = "raised"
    /\ Len(applied) = 1
    /\ Handled = 2
    /\ Len(FlatEntries) = 3
    /\ df # loaded
    /\ terror.kind = "ColumnsNotFound"

\* C9: a name outside the five operations is rejected at lookup with an
\* unknown-operation error naming the operation and its index, and nothing is invoked.
C9_ClosedOperationSet ==
    (method_name_normalized # <<>> /\ method_name_normalized \notin Operations) =>
        /\ tpc = "raised"
        /\ terror.kind = "UnknownOperation"
        /\ terror.op = method_name_normalized
        /\ terror.index = tpos

\* C10: the operation name and every string of the parameters are dispatched in
\* composed form, whichever shape the parameters have.
C10_AllStringsComposed ==
    /\ method_name_normalized = NFC(method_name_normalized)
    /\ params_normalized = NormalizeDeep(params_normalized)

(* ======================= properties of the single operations ======================= *)
\* the first operation of the run has been handled: loaded is the table it was given,
\* df the table it left, applied / terror tell whether it returned or raised
FirstHandled(call) == Len(config) >= 1 /\ config[1] = call /\ tpos = 1

FirstApplied(call) == FirstHandled(call) /\ Len(applied) = 1

OnlyDigitsAndDashes(cell) ==
    cell # NullT /\ \A i \in 1..Len(cell) : cell[i] \in Digits \cup {"-"}

\* the raw cells of a column that are not made of digits and dashes alone
OffendingCells(t, col) ==
    {t.rows[i][col] : i \in {j \in 1..Len(t.rows) : ~OnlyDigitsAndDashes(t.rows[j][col])}}

\* C11: standardize_id_columns accepts a cell only if it is composed solely of digits
\* and dashes; when some cell is not, it fails with an invalid-id error whose message
\* names an offending cell exactly as the table stores it, dashes included.
C11_RejectsNamingRawCell ==
    (FirstHandled(StandardizeCall(<<ID>>)) /\ OffendingCells(loaded, ID) # {}) =>
        /\ terror.kind = "InvalidIdValue"
        /\ terror.value \in {<<cell>> : cell \in OffendingCells(loaded, ID)}

\* the digits of a cell as a decimal numeral without leading zeros
DecimalOfDigits(cell) ==
    LET d == StripLeft(SelectSeq(cell, LAMBDA c : c \in Digits), {"0"})
    IN IF d = <<>> THEN <<"0">> ELSE d

\* C12: standardize_id_columns is idempotent: where one application succeeds, each cell
\* of the column is the decimal numeral of its digits without dashes and leading zeros,
\* and a second application to the same column succeeds and leaves that table as it is.
C12_StandardizeIdempotent ==
    /\ [](FirstApplied(StandardizeCall(<<ID>>)) =>
            /\ df.cols = loaded.cols
            /\ Len(df.rows) = Len(loaded.rows)
            /\ \A i \in 1..Len(df.rows) :
                  /\ df.rows[i][ID] = DecimalOfDigits(loaded.rows[i][ID])
                  /\ df.rows[i][G] = loaded.rows[i][G])
    /\ [][(/\ config = <<StandardizeCall(<<ID>>), StandardizeCall(<<ID>>)>>
           /\ tpos = 1
           /\ Len(applied) = 1)
          => (/\ Len(applied') = 2
              /\ terror' = NoTError
              /\ df' = df)]_vars

C12_Witness ==
    /\ config = <<StandardizeCall(<<ID>>), StandardizeCall(<<ID>>)>>
    /\ Len(applied) = 2
    /\ tpc = "returned"
    /\ treturned # loaded
    /\ \E i \in 1..Len(loaded.rows) : loaded.rows[i][ID] = <<"0", "-", "1", "2">>

SelectRuns == {Names(<<G, ID>>), Names(<<ID>>), Names(<<>>), Names(<<NM, G, <<"x">>>>)}

\* C13: for a list cols of names all present in T, select_columns(cols) yields exactly
\* the columns cols in the given order and T's rows in T's order, cell for cell on those
\* columns; if a name is absent it fails with an error listing all the missing names.
C13_SelectColumnsProjects ==
    \A cols \in SelectRuns :
        FirstHandled(One(<<"select_columns">>, cols)) =>
            LET names == AsNames(cols)
                absent == SelectSeq(names, LAMBDA c : \A k \in 1..Len(loaded.cols) : loaded.cols[k] # c)
            IN IF absent = <<>>
               THEN /\ Len(applied) = 1
                    /\ terror = NoTError
                    /\ df.cols = names
                    /\ Len(df.rows) = Len(loaded.rows)
                    /\ \A i \in 1..Len(df.rows) :
                          /\ DOMAIN df.rows[i] = Range(names)
                          /\ \A c \in Range(names) : df.rows[i][c] = loaded.rows[i][c]
               ELSE /\ applied = <<>>
                    /\ tpc = "raised"
                    /\ terror.kind = "ColumnsNotFound"
                    /\ terror.value = absent
                    /\ df = loaded

C13_Witness ==
    /\ FirstApplied(SelectCall(<<G, ID>>))
    /\ Len(loaded.rows) = MaxRows
    /\ df.cols = <<G, ID>>
    /\ loaded.cols = <<ID, G>>

\* the run is_in V then not_in V on the same column
IsInThenNotIn(c, V) == <<FilterCall(c, <<"is_in">>, V), FilterCall(c, <<"not_in">>, V)>>

\* C14: filter_rows(col, is_in, V) followed by filter_rows(col, not_in, V) on the output
\* of the first yields a table with no rows, for any existing column and value set V.
C14_IsInThenNotInIsEmpty ==
    \A c \in {ID, G}, V \in ValueSets :
        (config = IsInThenNotIn(c, V) /\ tpos >= 1) =>
            /\ terror = NoTError
            /\ Len(applied) = tpos
            /\ df.cols = loaded.cols
            /\ tpos = 1 =>
                  df.rows = SelectSeq(loaded.rows,
                                      LAMBDA r : \E k \in 1..Len(V) : r[c] = V[k])
            /\ tpos = 2 => df.rows = <<>>

\* the first filter kept rows for the second to remove
C14_Witness ==
    /\ config = IsInThenNotIn(G, <<<<"a">>>>)
    /\ Len(applied) = 2
    /\ \E i \in 1..Len(loaded.rows) : loaded.rows[i][G] = <<"a">>
    /\ \E i \in 1..Len(loaded.rows) : loaded.rows[i][G] # <<"a">>
    /\ tpc = "returned"

\* the runs of drop_duplicates that keep the first row, with the columns they name
KeepFirstRuns ==
    {[call |-> DropCall(<<G>>), columns |-> {G}],
     [call |-> DropCall(<<G, ID>>), columns |-> {G, ID}],
     [call |-> DropKeepCall(<<ID>>, <<"first">>), columns |-> {ID}]}

Agree(r1, r2, columns) == \A c \in columns : r1[c] = r2[c]

\* C15: drop_duplicates(columns, keep=first) never increases the row count, leaves no
\* two rows that agree on all the given columns, keeps for each combination of values
\* the row that appears first in input order, and keeps the kept rows in their order.
C15_DropDuplicatesKeepsFirst ==
    \A run \in KeepFirstRuns :
        FirstHandled(run.call) =>
            LET n == Len(loaded.rows)
                m == Len(df.rows)
            IN /\ Len(applied) = 1
               /\ df.cols = loaded.cols
               /\ m <= n
               /\ \A a, b \in 1..m : a # b => ~Agree(df.rows[a], df.rows[b], run.columns)
               /\ \E f \in [1..m -> 1..n] :
                     /\ \A a, b \in 1..m : a < b => f[a] < f[b]
                     /\ \A a \in 1..m :
                           /\ df.rows[a] = loaded.rows[f[a]]
                           /\ \A j \in 1..(f[a] - 1) :
                                 ~Agree(loaded.rows[j], loaded.rows[f[a]], run.columns)
                     /\ \A i \in 1..n : \E a \in 1..m :
                           Agree(loaded.rows[i], df.rows[a], run.columns)

\* two rows agreed on g and differed in id, and the later one was dropped
C15_Witness ==
    /\ FirstApplied(DropCall(<<G>>))
    /\ Len(df.rows) < Len(loaded.rows)
    /\ \E i, j \in 1..Len(loaded.rows) :
          /\ i < j
          /\ loaded.rows[i][G] = loaded.rows[j][G]
          /\ loaded.rows[i][ID] # loaded.rows[j][ID]
          /\ \E a \in 1..Len(df.rows) : df.rows[a] = loaded.rows[i]

OrderName == <<"order">>

GroupOrderRuns == {<<G>>, <<G, ID>>, <<ID>>}

\* the values 1..k as the cells of the order column
OrderCells(k) == {<<ToString(v)>> : v \in 1..k}

\* the rows of df that carry the same group_columns values as its row n
GroupOf(n, group_columns) ==
    {m \in 1..Len(df.rows) : Agree(df.rows[m], df.rows[n], Range(group_columns))}

NullTreatmentRows == SelectSeq(df.rows, LAMBDA r : r[G] = NullT)

\* C17: add_group_order on [treatment_id, date_col]: the rows whose treatment_id is null
\* are grouped together and carry the order values 1..m, m being their number, also
\* when they differ in date_col.
C17_NullTreatmentsNumberedTogether ==
    FirstApplied(GroupOrderCall(<<G, ID>>)) =>
        [k \in 1..Len(NullTreatmentRows) |-> NullTreatmentRows[k][OrderName]]
            = [k \in 1..Len(NullTreatmentRows) |-> <<ToString(k)>>]

(* ======================= frame of run_transformations ======================= *)
\* C18: run_transformations never changes the table it was given: after the run,
\* successful or failed, the caller's input table holds the same columns and cells as
\* before, every operation's effect being visible in the returned table only.
C18_InputTableUntouched ==
    tpc \in {"returned", "raised"} => input_df = loaded

(* ======================= properties of main ======================= *)
HasExtension(name) == \E i \in 1..Len(name) : name[i] = "."

\* the extension of the configured output file name is exactly csv or xlsx
CsvOrXlsxExtension ==
    HasExtension(output_file_name) /\ AfterLastDot(output_file_name) \in {<<"csv">>, <<"xlsx">>}

\* C19: the final output is written only when the extension of the configured output
\* file name is exactly csv or xlsx; for any other extension, and for a name without an
\* extension, the run ends with a fatal unsupported-output-type error and no final
\* output file is written.
C19_OnlyCsvOrXlsxWritten ==
    /\ final_output # NoFile => CsvOrXlsxExtension
    /\ (mpc \in {"done", "raised"} /\ merror.kind # "WriteError" /\ ~CsvOrXlsxExtension) =>
          /\ mpc = "raised"
          /\ merror.kind = "UnknownOutputType"
          /\ final_output = NoFile

\* the join step main handed to run_joins last, as the configuration file states it
ConfiguredStep == raw_joins[jpos]

\* C20: a join step reaches the executor with the fields it was configured with: a
\* step configured with type concat, a dataframes list, an output name and an
\* ignore_index flag, passed through get_joins into run_joins, is executed as a concat
\* of exactly those tables and is bound and exported under its configured output name.
C20_ConcatStepReachesExecutor ==
    (/\ mpc # "idle"
     /\ jpos >= 1
     /\ DictGet(ConfiguredStep, "type", "merge") = "concat"
     /\ {"dataframes", "output", "ignore_index"} \subseteq DOMAIN ConfiguredStep
     /\ error.kind # "WriteError")
    => /\ error = NoError
       /\ ConfiguredStep.output \in DOMAIN dfs_dict
       /\ dfs_dict[ConfiguredStep.output] = concat(Lookup(dfs_dict, ConfiguredStep.dataframes))
       /\ written # <<>>
       /\ written[Len(written)] =
             [name |-> output_filename(jpos, ConfiguredStep.output),
              df |-> dfs_dict[ConfiguredStep.output]]

(* ======================= defaults and frames ======================= *)
\* the step handled last as its author wrote it: in the 'joins' section when main runs,
\* in the list given to the DataMerger otherwise
StepAsConfigured == IF mpc = "idle" THEN join_configuration[jpos] ELSE raw_joins[jpos]

ConfiguredLeftKey == DictGet(StepAsConfigured.join_on[1], StepAsConfigured.source, None)
ConfiguredRightKey == DictGet(StepAsConfigured.join_on[2], StepAsConfigured.join_with, None)

\* C21: a merge step whose join_type is missing from the configuration is executed with
\* the default join type inner, both when the descriptor is given to run_joins without
\* a join_type key and when it arrives through ConfigParser.get_joins.
C21_MissingJoinTypeIsInner ==
    (/\ jpos >= 1
     /\ DictGet(StepAsConfigured, "type", "merge") = "merge"
     /\ "join_type" \notin DOMAIN StepAsConfigured
     /\ {"source", "join_with", "join_on"} \subseteq DOMAIN StepAsConfigured
     /\ Len(StepAsConfigured.join_on) >= 2
     /\ {StepAsConfigured.source, StepAsConfigured.join_with} \subseteq DOMAIN dfs_dict
     /\ ~MergeFails(left_df, right_df, ConfiguredLeftKey, ConfiguredRightKey, "inner")
     /\ error.kind # "WriteError")
    => /\ error = NoError
       /\ result_df = merge(left_df, right_df, ConfiguredLeftKey, ConfiguredRightKey, "inner")

\* the step the loop is about to run ends in an error
StepEndsInError == InLoop /\ jpc' = "raised"

\* the name under which the step about to run binds its result
BoundName ==
    IF operation_type = "merge" THEN DictGet(join_step, "source", None) ELSE output_name

C23_StandardizeAllOrNothing ==
    \A columns \in {<<ID>>, <<ID, G>>} :
        (FirstHandled(StandardizeCall(columns)) /\ tpc = "raised") => df = loaded

====
